---- MODULE Spec2Model ----
(***************************************************************************)
(* Model of the weather pipeline of the SectionCards component             *)
(* (src/unnamed/part_000): the geolocation watch, the fallback timer, the  *)
(* single weather fetch with its two requests, the reverse geocoding       *)
(* lookup, the forecast sampler and the effect cleanup.                    *)
(*                                                                         *)
(* Scheduling is the browser's event loop: every action below is one task  *)
(* (a callback, or the continuation of an await together with the          *)
(* microtasks it runs), executed to completion.                            *)
(***************************************************************************)
EXTENDS Integers, Sequences, FiniteSets, TLC

VARIABLES
    \* module configuration, fixed for a run
    OPENWEATHER_API_KEY, OPENCAGE_API_KEY, geolocation,
    \* React state of the component
    loading, error, weather, hourlyForecast,
    \* locals of the effect closure
    effect, isCancelled, aborted, watchId, fallbackTimer, bestPosition, hasFetched,
    \* platform: callback tasks of the watch already queued, and the armed timer
    queuedTasks, timerArmed,
    \* locals of the fetchWeatherForPosition invocation, and its await position
    fpc, fetchPos, currentRes, forecastRes, currentJson, forecastJson,
    \* observation of the run: requests issued, invocations of
    \* fetchWeatherForPosition, which path invoked it, and the stream's history
    requests, fetchCalls, trigger, lowestSeen, firstGood, preempted,
    \* the task that ran last, with the error it delivered if it was an error
    \* callback and the two bodies it parsed if it read the responses
    lastTask

config   == <<OPENWEATHER_API_KEY, OPENCAGE_API_KEY, geolocation>>
exposed  == <<loading, error, weather, hourlyForecast>>
closure  == <<effect, isCancelled, aborted, watchId, fallbackTimer, bestPosition, hasFetched>>
platform == <<queuedTasks, timerArmed>>
fetchv   == <<fpc, fetchPos, currentRes, forecastRes, currentJson, forecastJson>>
observed == <<requests, fetchCalls, trigger, lowestSeen, firstGood, preempted>>
vars     == <<config, exposed, closure, platform, fetchv, observed, lastTask>>

----------------------------------------------------------------------------
(* Values.  null is the empty tuple and a present value v is <<v>>.        *)
(* A JavaScript number is finite, NaN or +Infinity; Undefined stands for   *)
(* an absent field or a value that is not of type number.                  *)

Null == <<>>
Some(v) == <<v>>

Fin(n) == [k |-> "fin", v |-> n]
NaN == [k |-> "nan", v |-> 0]
PosInf == [k |-> "inf", v |-> 0]
Undefined == [k |-> "undef", v |-> 0]

TypeofNumber(x) == x.k \in {"fin", "nan", "inf"}
NumberIsNaN(x) == x.k = "nan"
NumberIsFinite(x) == x.k = "fin"

\* String(x) of a number, as used for the lat and lon request parameters
JSString(x) ==
    CASE x.k = "fin" -> ToString(x.v)
      [] x.k = "nan" -> "NaN"
      [] x.k = "inf" -> "Infinity"
      [] OTHER -> "undefined"

----------------------------------------------------------------------------
(* Bounds and input domains *)

\* most callback tasks of the watch that are queued and not yet run
MaxQueuedTasks == 2

MIN_LOCATION_ACCURACY_METERS == 100
HOURS_TO_DISPLAY == 24
FORECAST_INTERVAL_HOURS == 3
FORECAST_POINTS == HOURS_TO_DISPLAY \div FORECAST_INTERVAL_HOURS

Latitudes == {Fin(35), Fin(36), NaN, PosInf}
Longitudes == {Fin(139), NaN}
Accuracies == {Fin(20), Fin(100), Fin(150), Undefined}

\* GeolocationPosition: coords.latitude, coords.longitude, coords.accuracy
Positions ==
    [latitude : Latitudes, longitude : {Fin(139)}, accuracy : Accuracies]
    \cup [latitude : {Fin(35)}, longitude : Longitudes, accuracy : {Fin(20), Fin(150)}]

\* GeolocationPositionError: code and message
GeoErrors == {[code |-> 1, message |-> ""], [code |-> 2, message |-> ""],
              [code |-> 3, message |-> ""], [code |-> 0, message |-> "sensor fault"],
              [code |-> 0, message |-> ""]}

----------------------------------------------------------------------------
(* Forecast sampler.  A raw record carries dt (epoch seconds), dt_txt,     *)
(* main.temp in hundredths of a degree and pop in thousandths; isNull      *)
(* marks a null array element.  A point carries the time label, the        *)
(* temperature in tenths of a degree and the percentage.                   *)

Max(a, b) == IF a >= b THEN a ELSE b
Min(a, b) == IF a <= b THEN a ELSE b

\* Math.round on a quotient n/d (d > 0): the nearest integer, halves upwards
RoundDiv(n, d) == (2 * n + d) \div (2 * d)

\* mutant: the percentage is not clamped
toPercent_Unclamped(fraction) == RoundDiv(fraction, 10)

toPercent(fraction) == Max(0, Min(100, RoundDiv(fraction, 10)))

\* Date.parse of the dt_txt strings the model draws; anything else is NaN
DateParse(txt) ==
    CASE txt = "1970-01-01 03:00:00" -> Fin(10800000)
      [] txt = "1970-01-01 06:30:00" -> Fin(23400000)
      [] OTHER -> NaN

\* entry.dt * 1000
TimesThousand(x) == IF x.k = "fin" THEN Fin(x.v * 1000) ELSE x

Pad2(n) == IF n < 10 THEN "0" \o ToString(n) ELSE ToString(n)

\* TIME_FORMATTER.format(new Date(timestamp)): hour and minute, two digits each
\* (time zone UTC)
FormatTime(timestamp) ==
    LET minutes == (timestamp \div 60000) % 1440
    IN Pad2(minutes \div 60) \o ":" \o Pad2(minutes % 60)

\* Math.round(temperature * 10) / 10, from hundredths to tenths
RoundTemp(temperature) ==
    IF temperature.k = "fin" THEN Fin(RoundDiv(temperature.v, 10)) ELSE temperature

\* the callback of .map: a point, or Null for a record that is dropped
SamplePoint(entry) ==
    IF entry.isNull THEN Null
    ELSE LET timestamp == IF TypeofNumber(entry.dt) THEN TimesThousand(entry.dt)
                          ELSE IF entry.dt_txt # "" THEN DateParse(entry.dt_txt)
                          ELSE NaN
         IN IF ~NumberIsFinite(timestamp) THEN Null
            ELSE IF ~TypeofNumber(entry.temp) \/ NumberIsNaN(entry.temp) THEN Null
            ELSE LET probability == IF TypeofNumber(entry.pop) /\ NumberIsFinite(entry.pop)
                                    THEN entry.pop.v ELSE 0
                 IN Some([time |-> FormatTime(timestamp.v),
                          temp |-> RoundTemp(entry.temp),
                          pop  |-> toPercent(probability)])

RECURSIVE FilterPoints(_)
FilterPoints(mapped) ==
    IF mapped = <<>> THEN <<>>
    ELSE IF Head(mapped) = Null THEN FilterPoints(Tail(mapped))
    ELSE <<Head(mapped)[1]>> \o FilterPoints(Tail(mapped))

\* mutant: the records are filtered before the list is cut to FORECAST_POINTS
buildThreeHourlyForecast_FilterFirst(forecast) ==
    LET points == FilterPoints([i \in 1..Len(forecast) |-> SamplePoint(forecast[i])])
    IN SubSeq(points, 1, Min(Len(points), FORECAST_POINTS))

\* forecast.slice(0, FORECAST_POINTS).map(...).filter(point !== null)
buildThreeHourlyForecast(forecast) ==
    LET sliced == SubSeq(forecast, 1, Min(Len(forecast), FORECAST_POINTS))
    IN FilterPoints([i \in 1..Len(sliced) |-> SamplePoint(sliced[i])])

Entry(dt, txt, temp, pop) ==
    [isNull |-> FALSE, dt |-> dt, dt_txt |-> txt, temp |-> temp, pop |-> pop]

GoodEntry == Entry(Fin(10800), "", Fin(2136), Fin(420))
NoTempEntry == Entry(Fin(10800), "", Undefined, Fin(420))
Repeat(e, n) == [i \in 1..n |-> e]

----------------------------------------------------------------------------
(* Response payloads of the three endpoints.  Names are sequences of       *)
(* characters so that trimming is computed.                                *)

Statuses == {200, 401}
ResponseOk(status) == status >= 200 /\ status <= 299

Tokyo == <<"T", "o", "k", "y", "o">>

CurrentBody(message, err, temp, isArray, descriptors, name) ==
    [message |-> message, error |-> err, temp |-> temp,
     weatherIsArray |-> isArray, weather |-> descriptors, name |-> name]

Clear == [description |-> "clear sky", icon |-> "01d"]

\* parsed bodies of the current-conditions endpoint; Null is an unparseable body
CurrentBodies ==
    { Null,
      Some(CurrentBody("", "", Fin(2136), TRUE, <<Clear>>, Some(Tokyo))),
      Some(CurrentBody("", "", PosInf, TRUE, <<Clear>>, Some(Tokyo))),
      Some(CurrentBody("", "", Undefined, TRUE, <<Clear>>, Some(Tokyo))),
      Some(CurrentBody("", "", Fin(2136), TRUE, <<>>, Null)),
      Some(CurrentBody("", "", Fin(2136), FALSE, <<>>, Null)),
      Some(CurrentBody("invalid key", "", Undefined, FALSE, <<>>, Null)),
      Some(CurrentBody("", "quota", Undefined, FALSE, <<>>, Null)) }

ForecastBody(message, err, isArray, list) ==
    [message |-> message, error |-> err, listIsArray |-> isArray, list |-> list]

\* parsed bodies of the forecast endpoint
ForecastBodies ==
    { Null,
      Some(ForecastBody("", "", TRUE, <<GoodEntry>>)),
      Some(ForecastBody("", "", TRUE, Repeat(GoodEntry, FORECAST_POINTS + 2))),
      Some(ForecastBody("", "", TRUE, Repeat(NoTempEntry, FORECAST_POINTS) \o <<GoodEntry>>)),
      Some(ForecastBody("", "", TRUE, <<>>)),
      Some(ForecastBody("", "", FALSE, <<>>)),
      Some(ForecastBody("invalid key", "", FALSE, <<>>)) }

\* what fetch() settles with: a response with a status, or a rejection
Settlements == [rejected : {FALSE}, status : Statuses] \cup {[rejected |-> TRUE, status |-> 0]}

\* outcome of the geocoding request: rejection, or a status and a parsed body
\* whose results[0].components.city is Null (absent or not a string) or a string
GeoResult(city) == [results |-> <<[city |-> city]>>]
GeoBodies ==
    { Null, Some([results |-> <<>>]), Some(GeoResult(Null)),
      Some(GeoResult(Some(<<" ", "S", "h", " ">>))),
      Some(GeoResult(Some(<<" ", " ">>))), Some(GeoResult(Some(<<>>))) }
GeoOutcomes == [rejected : {FALSE}, status : Statuses, body : GeoBodies]
               \cup {[rejected |-> TRUE, status |-> 0, body |-> Null]}

RECURSIVE TrimStart(_)
TrimStart(str) ==
    IF str # <<>> /\ Head(str) = " " THEN TrimStart(Tail(str)) ELSE str

RECURSIVE TrimEnd(_)
TrimEnd(str) ==
    IF str # <<>> /\ str[Len(str)] = " " THEN TrimEnd(SubSeq(str, 1, Len(str) - 1)) ELSE str

Trim(str) == TrimEnd(TrimStart(str))

----------------------------------------------------------------------------
(* The program.  Cur is the state the callbacks read and write; each       *)
(* function of the source is an operator from a state (and its arguments)  *)
(* to the state it leaves, so that calls compose as they do in the code.   *)

Cur ==
    [loading |-> loading, error |-> error, weather |-> weather,
     hourlyForecast |-> hourlyForecast,
     isCancelled |-> isCancelled, aborted |-> aborted, watchId |-> watchId,
     fallbackTimer |-> fallbackTimer, timerArmed |-> timerArmed,
     bestPosition |-> bestPosition, hasFetched |-> hasFetched,
     fpc |-> fpc, fetchPos |-> fetchPos, currentRes |-> currentRes,
     forecastRes |-> forecastRes, currentJson |-> currentJson,
     forecastJson |-> forecastJson, requests |-> requests, fetchCalls |-> fetchCalls]

\* the state after the task is t, the value of s
Becomes(s) ==
    \E t \in {s} :
        /\ loading' = t.loading /\ error' = t.error /\ weather' = t.weather
        /\ hourlyForecast' = t.hourlyForecast
        /\ isCancelled' = t.isCancelled /\ aborted' = t.aborted /\ watchId' = t.watchId
        /\ fallbackTimer' = t.fallbackTimer /\ timerArmed' = t.timerArmed
        /\ bestPosition' = t.bestPosition /\ hasFetched' = t.hasFetched
        /\ fpc' = t.fpc /\ fetchPos' = t.fetchPos /\ currentRes' = t.currentRes
        /\ forecastRes' = t.forecastRes /\ currentJson' = t.currentJson
        /\ forecastJson' = t.forecastJson /\ requests' = t.requests
        /\ fetchCalls' = t.fetchCalls

UnsupportedMsg == "Geolocation is not supported by your browser."
InvalidCoordinatesMsg == "Received invalid coordinates from geolocation."
MissingKeyMsg == "Missing OpenWeatherMap API key (VITE_OPENWEATHER_API_KEY)."
UnableToRefineMsg == "Unable to refine your location."
CurrentUnavailableMsg == "Current weather data is unavailable."
ForecastUnavailableMsg == "Hourly forecast data is unavailable."
UnablePrepareMsg == "Unable to prepare hourly forecast data."
FetchFailedMsg == "Failed to fetch weather data."

\* mutant: the watch is cleared and the timer is left armed
stopWatching_KeepsTimer(s) == [s EXCEPT !.watchId = Null]

\* clearWatch and clearTimeout; a cleared timer never fires
stopWatching(s) ==
    [s EXCEPT !.watchId = Null, !.fallbackTimer = Null, !.timerArmed = FALSE]

describeGeoError(geoError) ==
    CASE geoError.code = 1 -> "Location permission was denied."
      [] geoError.code = 2 -> "Unable to determine your location."
      [] geoError.code = 3 -> "Timed out while trying to retrieve your location."
      [] OTHER -> IF geoError.message # "" THEN geoError.message
                  ELSE "Unable to retrieve your location."

reportLocationError(s, message) ==
    IF s.isCancelled THEN s
    ELSE [stopWatching(s) EXCEPT !.weather = Null, !.hourlyForecast = <<>>,
                                 !.error = Some(message), !.loading = FALSE]

\* the check of latitude and longitude made at lines 206-211 and 341-346
CoordinatesAreNumbers(position) ==
    /\ TypeofNumber(position.latitude) /\ ~NumberIsNaN(position.latitude)
    /\ TypeofNumber(position.longitude) /\ ~NumberIsNaN(position.longitude)

Request(endpoint, position) ==
    [endpoint |-> endpoint, lat |-> JSString(position.latitude),
     lon |-> JSString(position.longitude)]

\* the locals of a finished invocation; a successful one keeps what it displayed
FetchReturns(s, keep) ==
    IF keep THEN [s EXCEPT !.fpc = "done"]
    ELSE [s EXCEPT !.fpc = "done", !.currentRes = Null, !.forecastRes = Null,
                   !.currentJson = Null, !.forecastJson = Null]

\* finally { if (!isCancelled) setLoading(false) }
FetchFinally(s, keep) ==
    FetchReturns(IF s.isCancelled THEN s ELSE [s EXCEPT !.loading = FALSE], keep)

\* the catch block: thrown is [abort, message]
FetchCatch(s, thrown) ==
    IF thrown.abort \/ s.isCancelled THEN FetchFinally(s, FALSE)
    ELSE FetchFinally([s EXCEPT !.weather = Null, !.hourlyForecast = <<>>,
                                !.error = Some(IF thrown.message # "" THEN thrown.message
                                               ELSE FetchFailedMsg)], FALSE)

Thrown(message) == [abort |-> FALSE, message |-> message]
AbortError == [abort |-> TRUE, message |-> "The operation was aborted."]
NetworkError == [abort |-> FALSE, message |-> "Failed to fetch"]

\* mutant: the check of the credential is missing
fetchWeatherForPosition_NoKeyCheck(s, position) ==
    LET called == [s EXCEPT !.fetchCalls = @ + 1, !.fetchPos = Some(position)]
    IN IF s.isCancelled THEN called
       ELSE IF ~CoordinatesAreNumbers(position)
            THEN reportLocationError(called, InvalidCoordinatesMsg)
       ELSE [called EXCEPT !.loading = TRUE, !.error = Null,
                           !.currentRes = Null, !.forecastRes = Null,
                           !.requests = IF s.aborted THEN @
                                        ELSE @ \cup {Request("weather", position),
                                                     Request("forecast", position)},
                           !.fpc = "awaitResponses"]

\* mutant: the geocoding request is issued together with the weather requests
fetchWeatherForPosition_GeocodesAtOnce(s, position) ==
    LET called == [s EXCEPT !.fetchCalls = @ + 1, !.fetchPos = Some(position)]
    IN IF s.isCancelled THEN called
       ELSE IF ~CoordinatesAreNumbers(position)
            THEN reportLocationError(called, InvalidCoordinatesMsg)
       ELSE IF OPENWEATHER_API_KEY = ""
            THEN reportLocationError(called, MissingKeyMsg)
       ELSE [called EXCEPT !.loading = TRUE, !.error = Null,
                           !.currentRes = Null, !.forecastRes = Null,
                           !.requests = IF s.aborted THEN @
                                        ELSE @ \cup {Request("weather", position),
                                                     Request("forecast", position)}
                                               \cup (IF OPENCAGE_API_KEY = "" THEN {}
                                                     ELSE {Request("geocode", position)}),
                           !.fpc = "awaitResponses"]

\* fetchWeatherForPosition up to its first await (lines 199-243)
fetchWeatherForPosition(s, position) ==
    LET called == [s EXCEPT !.fetchCalls = @ + 1, !.fetchPos = Some(position)]
    IN IF s.isCancelled THEN called
       ELSE IF ~CoordinatesAreNumbers(position)
            THEN reportLocationError(called, InvalidCoordinatesMsg)
       ELSE IF OPENWEATHER_API_KEY = ""
            THEN reportLocationError(called, MissingKeyMsg)
       ELSE [called EXCEPT !.loading = TRUE, !.error = Null,
                           !.currentRes = Null, !.forecastRes = Null,
                           !.requests = IF s.aborted THEN @
                                        ELSE @ \cup {Request("weather", position),
                                                     Request("forecast", position)},
                           !.fpc = "awaitResponses"]

\* mutant: the message the provider supplies is ignored
HttpErrorMessage_StatusOnly(status, json) == "HTTP " \o ToString(status)

\* the message of a non-2xx response (lines 251-256 and 261-266)
HttpErrorMessage(status, json) ==
    IF json # Null /\ (json[1].message # "" \/ json[1].error # "")
    THEN ToString(status) \o " " \o
         (IF json[1].message # "" THEN json[1].message ELSE json[1].error)
    ELSE "HTTP " \o ToString(status)

\* the name resolveLocationName returns for a settled request (lines 106-133)
ResolvedName(outcome) ==
    IF outcome.rejected THEN Null
    ELSE IF ~ResponseOk(outcome.status) THEN Null
    ELSE IF outcome.body = Null THEN Null
    ELSE IF outcome.body[1].results = <<>> THEN Null
    ELSE LET city == outcome.body[1].results[1].city
         IN IF city # Null /\ Len(Trim(city[1])) > 0 THEN Some(Trim(city[1])) ELSE Null

\* mutant: the check of isCancelled at line 299 is missing
FetchCompletes_NoCancelCheck(s, geocodedName) ==
    LET json == s.currentJson[1]
    IN FetchFinally(
         [s EXCEPT !.weather = Some([name |-> IF geocodedName # Null THEN geocodedName
                                              ELSE json.name,
                                     temp |-> json.temp,
                                     description |-> json.weather[1].description,
                                     iconCode |-> json.weather[1].icon]),
                   !.hourlyForecast = buildThreeHourlyForecast(s.forecastJson[1].list)],
         TRUE)

\* lines 299-309 and the finally block, once resolveLocationName has returned
FetchCompletes(s, geocodedName) ==
    IF s.isCancelled THEN FetchFinally(s, FALSE)
    ELSE LET json == s.currentJson[1]
         IN FetchFinally(
              [s EXCEPT !.weather = Some([name |-> IF geocodedName # Null THEN geocodedName
                                                   ELSE json.name,
                                          temp |-> json.temp,
                                          description |-> json.weather[1].description,
                                          iconCode |-> json.weather[1].icon]),
                        !.hourlyForecast = buildThreeHourlyForecast(s.forecastJson[1].list)],
              TRUE)

\* lines 250-297: the checks of the two parsed bodies, then resolveLocationName
\* up to its await.  Without a geocoding key it returns null at once; fetch()
\* with a signal that is already aborted rejects without issuing a request, which
\* resolveLocationName catches and turns into null.
FetchValidates(s, cj, fj) ==
    LET cur == s.currentRes[1]
        fc == s.forecastRes[1]
    IN IF ~ResponseOk(cur.status)
       THEN FetchCatch(s, Thrown(HttpErrorMessage(cur.status, cj)))
       ELSE IF ~ResponseOk(fc.status)
       THEN FetchCatch(s, Thrown(HttpErrorMessage(fc.status, fj)))
       ELSE IF \/ cj = Null
               \/ ~TypeofNumber(cj[1].temp)
               \/ ~cj[1].weatherIsArray
               \/ cj[1].weather = <<>>
       THEN FetchCatch(s, Thrown(CurrentUnavailableMsg))
       ELSE IF fj = Null \/ ~fj[1].listIsArray \/ Len(fj[1].list) = 0
       THEN FetchCatch(s, Thrown(ForecastUnavailableMsg))
       ELSE IF Len(buildThreeHourlyForecast(fj[1].list)) = 0
       THEN FetchCatch(s, Thrown(UnablePrepareMsg))
       ELSE LET t == [s EXCEPT !.currentJson = cj, !.forecastJson = fj]
            IN IF OPENCAGE_API_KEY = "" \/ s.aborted THEN FetchCompletes(t, Null)
               ELSE [t EXCEPT !.requests = @ \cup {Request("geocode", s.fetchPos[1])},
                              !.fpc = "awaitGeocode"]

\* Number.POSITIVE_INFINITY stands above every accuracy the model draws
AccuracyValue(accuracy) ==
    IF TypeofNumber(accuracy) /\ NumberIsFinite(accuracy) THEN Fin(accuracy.v) ELSE PosInf

\* x <= y for a finite or infinite x and a finite y
LessOrEqual(x, y) == x.k = "fin" /\ x.v <= y

\* mutant: the guard does not look at hasFetched
maybeUsePosition_NoFetchedGuard(s, position) ==
    IF s.isCancelled THEN s
    ELSE IF ~CoordinatesAreNumbers(position) THEN s
    ELSE LET kept == [s EXCEPT !.bestPosition = Some(position)]
         IN IF LessOrEqual(AccuracyValue(position.accuracy), MIN_LOCATION_ACCURACY_METERS)
            THEN fetchWeatherForPosition(stopWatching([kept EXCEPT !.hasFetched = TRUE]),
                                         position)
            ELSE kept

\* mutant: the fetch is started with the position retained before this one
maybeUsePosition_FetchesPrevious(s, position) ==
    IF s.isCancelled \/ s.hasFetched THEN s
    ELSE IF ~CoordinatesAreNumbers(position) THEN s
    ELSE LET kept == [s EXCEPT !.bestPosition = Some(position)]
         IN IF LessOrEqual(AccuracyValue(position.accuracy), MIN_LOCATION_ACCURACY_METERS)
            THEN fetchWeatherForPosition(stopWatching([kept EXCEPT !.hasFetched = TRUE]),
                                         IF s.bestPosition # Null THEN s.bestPosition[1]
                                         ELSE position)
            ELSE kept

\* mutant: the coordinates are not checked before the position is used
maybeUsePosition_NoCoordinateCheck(s, position) ==
    IF s.isCancelled \/ s.hasFetched THEN s
    ELSE LET kept == [s EXCEPT !.bestPosition = Some(position)]
         IN IF LessOrEqual(AccuracyValue(position.accuracy), MIN_LOCATION_ACCURACY_METERS)
            THEN fetchWeatherForPosition(stopWatching([kept EXCEPT !.hasFetched = TRUE]),
                                         position)
            ELSE kept

maybeUsePosition(s, position) ==
    IF s.isCancelled \/ s.hasFetched THEN s
    ELSE IF ~CoordinatesAreNumbers(position) THEN s
    ELSE LET kept == [s EXCEPT !.bestPosition = Some(position)]
         IN IF LessOrEqual(AccuracyValue(position.accuracy), MIN_LOCATION_ACCURACY_METERS)
            THEN fetchWeatherForPosition(stopWatching([kept EXCEPT !.hasFetched = TRUE]),
                                         position)
            ELSE kept

\* mutant: the retained position is ignored and the error always reported
handleGeoError_AlwaysReports(s, geoError) ==
    IF s.isCancelled THEN s
    ELSE reportLocationError(s, describeGeoError(geoError))

handleGeoError(s, geoError) ==
    IF s.isCancelled THEN s
    ELSE IF s.bestPosition # Null /\ ~s.hasFetched
         THEN fetchWeatherForPosition(stopWatching([s EXCEPT !.hasFetched = TRUE]),
                                      s.bestPosition[1])
    ELSE reportLocationError(s, describeGeoError(geoError))

\* mutant: without a retained position the callback reports nothing
fallbackTimerCallback_Silent(s) ==
    IF s.isCancelled \/ s.hasFetched THEN s
    ELSE IF s.bestPosition # Null
         THEN fetchWeatherForPosition(stopWatching([s EXCEPT !.hasFetched = TRUE]),
                                      s.bestPosition[1])
    ELSE s

\* mutant: the deadline reports the message of the stream's timeout error
fallbackTimerCallback_ReportsTimeout(s) ==
    IF s.isCancelled \/ s.hasFetched THEN s
    ELSE IF s.bestPosition # Null
         THEN fetchWeatherForPosition(stopWatching([s EXCEPT !.hasFetched = TRUE]),
                                      s.bestPosition[1])
    ELSE reportLocationError(s, describeGeoError([code |-> 3, message |-> ""]))

\* the callback given to window.setTimeout (lines 390-402)
fallbackTimerCallback(s) ==
    IF s.isCancelled \/ s.hasFetched THEN s
    ELSE IF s.bestPosition # Null
         THEN fetchWeatherForPosition(stopWatching([s EXCEPT !.hasFetched = TRUE]),
                                      s.bestPosition[1])
    ELSE reportLocationError(s, UnableToRefineMsg)

\* the cleanup the effect returns (lines 405-409)
cleanup(s) ==
    [stopWatching([s EXCEPT !.isCancelled = TRUE]) EXCEPT !.aborted = TRUE]

----------------------------------------------------------------------------
(* Initial state and the tasks of the event loop *)

NoGeoError == [code |-> -1, message |-> ""]
Task(kind) == [kind |-> kind, geoError |-> NoGeoError, bodies |-> <<>>]

Init ==
    /\ OPENWEATHER_API_KEY \in {"", "owm-key"}
    /\ OPENCAGE_API_KEY \in {"", "oc-key"}
    /\ geolocation \in BOOLEAN
    /\ loading = TRUE /\ error = Null /\ weather = Null /\ hourlyForecast = <<>>
    /\ effect = "pending" /\ isCancelled = FALSE /\ aborted = FALSE
    /\ watchId = Null /\ fallbackTimer = Null /\ bestPosition = Null
    /\ hasFetched = FALSE
    /\ queuedTasks = 0 /\ timerArmed = FALSE
    /\ fpc = "idle" /\ fetchPos = Null /\ currentRes = Null /\ forecastRes = Null
    /\ currentJson = Null /\ forecastJson = Null
    /\ requests = {} /\ fetchCalls = 0 /\ trigger = "none"
    /\ lowestSeen = Null /\ firstGood = Null /\ preempted = FALSE
    /\ lastTask = Task("Init")

\* which path invoked fetchWeatherForPosition in the step to state s
TriggerAfter(s, path) == IF s.fetchCalls # fetchCalls THEN path ELSE trigger

\* the effect body (lines 149-161 and 379-403)
Mount ==
    /\ lastTask' = Task("Mount")
    /\ effect = "pending"
    /\ IF ~geolocation
       THEN /\ effect' = "unsupported"
            /\ Becomes([Cur EXCEPT !.error = Some(UnsupportedMsg), !.loading = FALSE])
       ELSE /\ effect' = "active"
            /\ Becomes([Cur EXCEPT !.watchId = Some(1), !.fallbackTimer = Some(1),
                                   !.timerArmed = TRUE])
    /\ UNCHANGED <<config, queuedTasks, trigger, lowestSeen, firstGood, preempted>>

\* the platform queues a success or error callback of the live watch.  A
\* callback queued before clearWatch may still run after it (the guards on
\* isCancelled and hasFetched in the callbacks are there for that); what it
\* delivers is drawn when it runs.
QueueWatchTask ==
    /\ lastTask' = Task("QueueWatchTask")
    /\ watchId # Null
    /\ queuedTasks < MaxQueuedTasks
    /\ queuedTasks' = queuedTasks + 1
    /\ UNCHANGED <<config, exposed, closure, timerArmed, fetchv, observed>>

\* lowest accuracy value among the valid positions delivered while undecided
LowestAfter(position) ==
    IF isCancelled \/ hasFetched \/ ~CoordinatesAreNumbers(position) THEN lowestSeen
    ELSE IF lowestSeen = Null THEN Some(AccuracyValue(position.accuracy))
    ELSE IF LessOrEqual(AccuracyValue(position.accuracy),
                        IF lowestSeen[1].k = "fin" THEN lowestSeen[1].v - 1 ELSE 0)
            \/ (lowestSeen[1].k = "inf" /\ AccuracyValue(position.accuracy).k = "fin")
         THEN Some(AccuracyValue(position.accuracy))
    ELSE lowestSeen

\* the first valid position within the threshold delivered before the timer
\* fired, the stream reported an error or the effect was cleaned up
FirstGoodAfter(position) ==
    IF /\ firstGood = Null /\ ~preempted
       /\ CoordinatesAreNumbers(position)
       /\ LessOrEqual(AccuracyValue(position.accuracy), MIN_LOCATION_ACCURACY_METERS)
    THEN Some(position) ELSE firstGood

\* a queued success callback runs: maybeUsePosition(position)
DeliverPositionFrom(positions) ==
    /\ lastTask' = Task("DeliverPosition")
    /\ queuedTasks > 0
    /\ \E position \in positions :
         \E s \in {maybeUsePosition(Cur, position)} :
            /\ Becomes(s)
            /\ trigger' = TriggerAfter(s, "threshold")
            /\ lowestSeen' = LowestAfter(position)
            /\ firstGood' = FirstGoodAfter(position)
    /\ queuedTasks' = queuedTasks - 1
    /\ UNCHANGED <<config, effect, preempted>>

DeliverPosition == DeliverPositionFrom(Positions)

\* a queued error callback runs: handleGeoError(geoError)
DeliverGeoErrorFrom(geoErrors) ==
    /\ queuedTasks > 0
    /\ \E geoError \in geoErrors :
         \E s \in {handleGeoError(Cur, geoError)} :
            /\ Becomes(s)
            /\ trigger' = TriggerAfter(s, "error")
            /\ lastTask' = [Task("DeliverGeoError") EXCEPT !.geoError = geoError]
    /\ queuedTasks' = queuedTasks - 1
    /\ preempted' = TRUE
    /\ UNCHANGED <<config, effect, lowestSeen, firstGood>>

DeliverGeoError == DeliverGeoErrorFrom(GeoErrors)

\* the armed timer expires and its callback runs
FallbackTimerFires ==
    /\ lastTask' = Task("FallbackTimerFires")
    /\ timerArmed
    /\ \E s \in {fallbackTimerCallback([Cur EXCEPT !.timerArmed = FALSE])} :
          /\ Becomes(s)
          /\ trigger' = TriggerAfter(s, "deadline")
    /\ preempted' = TRUE
    /\ UNCHANGED <<config, effect, queuedTasks, lowestSeen, firstGood>>

\* React runs the cleanup of the effect
Cleanup ==
    /\ lastTask' = Task("Cleanup")
    /\ effect = "active"
    /\ effect' = "cleaned"
    /\ Becomes(cleanup(Cur))
    /\ preempted' = TRUE
    /\ UNCHANGED <<config, queuedTasks, trigger, lowestSeen, firstGood>>

\* one of the two fetch() promises settles; Promise.all rejects on the first
\* rejection and resolves once both responses are there
Settled(s) ==
    IF s.currentRes # Null /\ s.forecastRes # Null
    THEN [s EXCEPT !.fpc = "awaitBodies"] ELSE s

CurrentSettles ==
    /\ lastTask' = Task("CurrentSettles")
    /\ fpc = "awaitResponses" /\ currentRes = Null
    /\ \E r \in Settlements :
         /\ aborted => r.rejected
         /\ IF r.rejected
            THEN Becomes(FetchCatch(Cur, IF aborted THEN AbortError ELSE NetworkError))
            ELSE Becomes(Settled([Cur EXCEPT !.currentRes = Some(r)]))
    /\ UNCHANGED <<config, effect, queuedTasks, trigger, lowestSeen, firstGood, preempted>>

ForecastSettles ==
    /\ lastTask' = Task("ForecastSettles")
    /\ fpc = "awaitResponses" /\ forecastRes = Null
    /\ \E r \in Settlements :
         /\ aborted => r.rejected
         /\ IF r.rejected
            THEN Becomes(FetchCatch(Cur, IF aborted THEN AbortError ELSE NetworkError))
            ELSE Becomes(Settled([Cur EXCEPT !.forecastRes = Some(r)]))
    /\ UNCHANGED <<config, effect, queuedTasks, trigger, lowestSeen, firstGood, preempted>>

\* both bodies are parsed (a body that fails to parse is null) and the function
\* runs on to its next await or to its end
BodiesReadFrom(currentBodies, forecastBodies) ==
    /\ fpc = "awaitBodies"
    /\ \E cj \in currentBodies, fj \in forecastBodies :
         /\ Becomes(FetchValidates(Cur, cj, fj))
         /\ lastTask' = [Task("BodiesRead") EXCEPT !.bodies = <<cj, fj>>]
    /\ UNCHANGED <<config, effect, queuedTasks, trigger, lowestSeen, firstGood, preempted>>

BodiesRead == BodiesReadFrom(CurrentBodies, ForecastBodies)

\* the geocoding request settles and resolveLocationName returns
GeocodeSettlesFrom(outcomes) ==
    /\ lastTask' = Task("GeocodeSettles")
    /\ fpc = "awaitGeocode"
    /\ \E outcome \in outcomes :
         /\ aborted => outcome.rejected
         /\ Becomes(FetchCompletes(Cur, ResolvedName(outcome)))
    /\ UNCHANGED <<config, effect, queuedTasks, trigger, lowestSeen, firstGood, preempted>>

GeocodeSettles == GeocodeSettlesFrom(GeoOutcomes)

Next ==
    \/ Mount
    \/ QueueWatchTask
    \/ DeliverPosition
    \/ DeliverGeoError
    \/ FallbackTimerFires
    \/ Cleanup
    \/ CurrentSettles
    \/ ForecastSettles
    \/ BodiesRead
    \/ GeocodeSettles

Spec == Init /\ [][Next]_vars

----------------------------------------------------------------------------
(* What the presentation shows (lines 420-455) *)

IsLoading == loading
IsError == ~loading /\ error # Null
IsReady == ~loading /\ error = Null /\ weather # Null

WeatherRequests == {r \in requests : r.endpoint \in {"weather", "forecast"}}
GeocodeRequests == {r \in requests : r.endpoint = "geocode"}

----------------------------------------------------------------------------
(* Claims *)

\* C1: in one run fetchWeatherForPosition is started at most once, whichever of
\* the three triggers fires and whatever is delivered after the decision: it is
\* invoked at most once and each weather endpoint is requested at most once.
C1_FetchStartedAtMostOnce ==
    /\ fetchCalls <= 1
    /\ Cardinality(WeatherRequests) <= 2
    /\ \A r1, r2 \in WeatherRequests : r1.endpoint = r2.endpoint => r1 = r2

\* a position within the threshold was delivered after the deadline had already
\* started the fetch, and no second fetch was started
C1_Witness ==
    /\ fetchCalls = 1 /\ trigger = "deadline" /\ WeatherRequests # {}
    /\ lastTask.kind = "DeliverPosition"

\* C2 (as stated): when the deadline starts the fetch, the position used is the
\* one with the lowest accuracy value among the valid positions observed.
C2_DeadlineUsesLowestAccuracy ==
    (trigger = "deadline" /\ fetchPos # Null)
        => AccuracyValue(fetchPos[1].accuracy) = lowestSeen[1]

\* C3: once the effect is cleaned up, no task changes the exposed state, issues
\* a request or starts a fetch.
C3_NothingAfterCancellation ==
    [][isCancelled => UNCHANGED <<exposed, requests, fetchCalls>>]_vars

\* the run was cancelled with the weather requests in flight, the invocation
\* has since ended, and the state is still Loading
C3_Witness ==
    /\ isCancelled /\ fpc = "done" /\ fetchCalls = 1 /\ requests # {}
    /\ loading /\ error = Null /\ weather = Null

\* C4 (as stated): once the exposed state is Error or Ready no task changes it,
\* and no request is issued after Error.
C4_TerminalOnceSettled ==
    [][(IsError \/ IsReady) => UNCHANGED <<exposed, requests>>]_vars

\* C5: when a valid position within the threshold is delivered before the timer
\* fires, before any stream error and before cleanup, the fetch is invoked with
\* the first such position and every request carries its coordinates.
C5_FirstGoodPositionIsUsed ==
    firstGood # Null =>
        /\ fetchPos = firstGood
        /\ trigger = "threshold"
        /\ \A r \in requests : r = Request(r.endpoint, firstGood[1])
        /\ OPENWEATHER_API_KEY # "" =>
               {Request("weather", firstGood[1]), Request("forecast", firstGood[1])}
                   \subseteq requests

\* the position at the threshold was used, and another position was delivered
\* after it while the requests were in flight
C5_Witness ==
    /\ firstGood # Null /\ firstGood[1].accuracy = Fin(MIN_LOCATION_ACCURACY_METERS)
    /\ hasFetched /\ lastTask.kind = "DeliverPosition" /\ fpc = "awaitResponses"
    /\ Request("weather", firstGood[1]) \in requests

\* the message the claim gives for each error code
C6_MappedMessage(geoError) ==
    CASE geoError.code = 1 -> "Location permission was denied."
      [] geoError.code = 2 -> "Unable to determine your location."
      [] geoError.code = 3 -> "Timed out while trying to retrieve your location."
      [] geoError.code = 0 /\ geoError.message = "sensor fault" -> "sensor fault"
      [] OTHER -> "Unable to retrieve your location."

\* C6: a stream error delivered before any decision ends the run in Error with
\* the mapped message and no request when no valid position is retained;
\* otherwise it reports no location error and starts the fetch with the retained
\* position, leaving the state the timer callback would leave.
C6_StreamErrorBeforeDecision ==
    [][(lastTask'.kind = "DeliverGeoError" /\ ~hasFetched /\ ~isCancelled) =>
         IF bestPosition = Null
         THEN /\ error' = Some(C6_MappedMessage(lastTask'.geoError))
              /\ ~loading' /\ weather' = Null /\ hourlyForecast' = <<>>
              /\ requests' = requests /\ fetchCalls' = fetchCalls
         ELSE /\ fetchCalls' = fetchCalls + 1 /\ fetchPos' = bestPosition
              /\ trigger' = "error" /\ hasFetched'
              /\ error' # Some(C6_MappedMessage(lastTask'.geoError))
              /\ OPENWEATHER_API_KEY # "" =>
                     /\ error' = Null /\ loading'
                     /\ Request("weather", bestPosition[1]) \in requests'
                     /\ Request("forecast", bestPosition[1]) \in requests'
              /\ Becomes(fallbackTimerCallback(Cur))]_vars

\* a stream error found a retained position and started the fetch with it
C6_Witness ==
    /\ lastTask.kind = "DeliverGeoError" /\ trigger = "error"
    /\ fetchPos = bestPosition /\ fpc = "awaitResponses" /\ error = Null

\* C7: with the weather credential absent no request is ever issued, the
\* missing-key error is not shown before a position has been accepted, and the
\* step that accepts a position leaves Error with the missing-key message.
C7_MissingCredential ==
    /\ [](OPENWEATHER_API_KEY = "" =>
            /\ requests = {}
            /\ error = Some("Missing OpenWeatherMap API key (VITE_OPENWEATHER_API_KEY).")
                   => fetchCalls > 0)
    /\ [][(OPENWEATHER_API_KEY = "" /\ fetchCalls' # fetchCalls) =>
            /\ error' = Some("Missing OpenWeatherMap API key (VITE_OPENWEATHER_API_KEY).")
            /\ ~loading' /\ weather' = Null /\ hourlyForecast' = <<>>
            /\ fpc' = "idle"]_vars

\* the deadline accepted a retained position and the missing key was reported
C7_Witness ==
    /\ OPENWEATHER_API_KEY = "" /\ trigger = "deadline" /\ fetchCalls = 1
    /\ IsError /\ error = Some(MissingKeyMsg) /\ requests = {}

\* C8 (as stated): Ready is shown only after two 2xx responses, a finite
\* temperature, a non-empty descriptor list and a non-empty forecast list, with
\* between 1 and FORECAST_POINTS sampled points.
C8_ReadyOnlyFromValidResponses ==
    IsReady =>
        /\ currentRes # Null /\ ResponseOk(currentRes[1].status)
        /\ forecastRes # Null /\ ResponseOk(forecastRes[1].status)
        /\ currentJson # Null /\ NumberIsFinite(currentJson[1].temp)
        /\ currentJson[1].weather # <<>>
        /\ forecastJson # Null /\ forecastJson[1].list # <<>>
        /\ Len(hourlyForecast) >= 1 /\ Len(hourlyForecast) <= FORECAST_POINTS

\* C9 (as stated): when the invocation ends with valid weather responses and a
\* non-empty sample and the run is not cancelled, the state is Ready and the
\* name shown is the resolved city, or the provider's name without one.
C9_ReadyWhateverTheLookup ==
    [][(fpc \in {"awaitBodies", "awaitGeocode"} /\ fpc' = "done"
        /\ currentJson' # Null /\ ~isCancelled) =>
         /\ IsReady'
         /\ weather'[1].name \in {Some(<<"S", "h">>), currentJson'[1].name}
         /\ OPENCAGE_API_KEY = "" => GeocodeRequests' = {}]_vars

----------------------------------------------------------------------------
(* A run that is never cancelled, with the scheduling the platform         *)
(* guarantees: React runs the effect, the armed timer expires, and every   *)
(* request that was issued settles.  Nothing obliges the platform to       *)
(* deliver a position or an error.  The inputs are one of each kind the    *)
(* code tells apart.                                                       *)

SomePositions ==
    {[latitude |-> Fin(35), longitude |-> Fin(139), accuracy |-> Fin(20)],
     [latitude |-> Fin(36), longitude |-> Fin(139), accuracy |-> Fin(150)],
     [latitude |-> NaN, longitude |-> Fin(139), accuracy |-> Fin(20)]}
SomeGeoErrors == {e \in GeoErrors : e.code \in {0, 3}}
SomeCurrentBodies == {b \in CurrentBodies : b = Null \/ b[1].weather # <<>>}
SomeForecastBodies == {b \in ForecastBodies : b # Null /\ b[1].listIsArray}
SomeGeoOutcomes ==
    {o \in GeoOutcomes : o.rejected \/ (o.status = 200 /\ o.body # Null
                                          /\ o.body[1].results # <<>>)}

DeliverSomePosition == DeliverPositionFrom(SomePositions)
DeliverSomeGeoError == DeliverGeoErrorFrom(SomeGeoErrors)
SomeBodiesRead == BodiesReadFrom(SomeCurrentBodies, SomeForecastBodies)
SomeGeocodeSettles == GeocodeSettlesFrom(SomeGeoOutcomes)

NextUncancelled ==
    \/ Mount
    \/ QueueWatchTask
    \/ DeliverSomePosition
    \/ DeliverSomeGeoError
    \/ FallbackTimerFires
    \/ CurrentSettles
    \/ ForecastSettles
    \/ SomeBodiesRead
    \/ SomeGeocodeSettles

FairSpec ==
    /\ Init /\ [][NextUncancelled]_vars
    /\ WF_vars(Mount)
    /\ WF_vars(FallbackTimerFires)
    /\ WF_vars(CurrentSettles)
    /\ WF_vars(ForecastSettles)
    /\ WF_vars(SomeBodiesRead)
    /\ WF_vars(SomeGeocodeSettles)

\* C10: in a run that is never cancelled, Loading always leads to Error or
\* Ready, whatever the position stream delivers or fails to deliver.
C10_LoadingEnds == IsLoading ~> (IsError \/ IsReady)

\* the deadline ended a run whose stream had delivered no valid position
C10_Witness ==
    /\ ~isCancelled /\ IsError /\ error = Some(UnableToRefineMsg)
    /\ bestPosition = Null /\ lastTask.kind = "FallbackTimerFires"

----------------------------------------------------------------------------
(* The forecast sampler as a function of the provider's list.  The list    *)
(* is drawn in the initial state and the one action applies                *)
(* buildThreeHourlyForecast to it.  The first record ranges over the       *)
(* values the callback of .map tells apart; the records after it are three *)
(* hours apart and each is either well formed or without a temperature.    *)

\* most records in a drawn list
MaxRecords == 9

NullEntry ==
    [isNull |-> TRUE, dt |-> Undefined, dt_txt |-> "", temp |-> Undefined, pop |-> Undefined]

Temperatures == {Fin(2136), Fin(2135), Fin(-45), Undefined, NaN, PosInf}
Probabilities == {Fin(420), Fin(5), Fin(4), Fin(-50), Fin(1500), Undefined, NaN, PosInf}

FirstRecords ==
    [isNull : {FALSE}, dt : {Fin(10800)}, dt_txt : {""},
     temp : Temperatures, pop : Probabilities]
    \cup [isNull : {FALSE}, dt : {Undefined, NaN},
          dt_txt : {"", "1970-01-01 06:30:00", "soon"},
          temp : {Fin(2136)}, pop : {Fin(420)}]
    \cup {NullEntry}

\* the record at position i of the list: three hours after the one before it
LaterRecord(i, hasTemp) ==
    Entry(Fin(10800 * i), "", IF hasTemp THEN Fin(2000 + 11 * i) ELSE Undefined,
          Fin(100 * i))

\* a list of n + 1 records
ForecastList(first, n, hasTemp) ==
    <<first>> \o [j \in 1..n |-> LaterRecord(j + 1, hasTemp[j])]

SamplerInit ==
    /\ OPENWEATHER_API_KEY = "owm-key" /\ OPENCAGE_API_KEY = "oc-key"
    /\ geolocation = TRUE
    /\ loading = TRUE /\ error = Null /\ weather = Null /\ hourlyForecast = <<>>
    /\ effect = "pending" /\ isCancelled = FALSE /\ aborted = FALSE
    /\ watchId = Null /\ fallbackTimer = Null /\ bestPosition = Null
    /\ hasFetched = FALSE
    /\ queuedTasks = 0 /\ timerArmed = FALSE
    /\ fpc = "idle" /\ fetchPos = Null /\ currentRes = Null /\ forecastRes = Null
    /\ currentJson = Null
    /\ \E first \in FirstRecords, n \in 0..(MaxRecords - 1) :
          \E hasTemp \in [1..n -> BOOLEAN] :
             forecastJson = Some(ForecastBody("", "", TRUE, ForecastList(first, n, hasTemp)))
    /\ requests = {} /\ fetchCalls = 0 /\ trigger = "none"
    /\ lowestSeen = Null /\ firstGood = Null /\ preempted = FALSE
    /\ lastTask = Task("Init")

\* setHourlyForecast(buildThreeHourlyForecast(forecastJson.list))
SampleForecast ==
    /\ lastTask.kind = "Init"
    /\ lastTask' = Task("SampleForecast")
    /\ hourlyForecast' = buildThreeHourlyForecast(forecastJson[1].list)
    /\ UNCHANGED <<config, loading, error, weather, closure, platform, fetchv, observed>>

SamplerNext == SampleForecast

SamplerSpec == SamplerInit /\ [][SamplerNext]_vars

\* the list that was sampled, and the positions among its first FORECAST_POINTS
\* whose record yields a point, in ascending order
Sampled == lastTask.kind = "SampleForecast"
RawList == forecastJson[1].list
YieldingPositions ==
    {i \in 1..Min(Len(RawList), FORECAST_POINTS) : SamplePoint(RawList[i]) # Null}
NthOf(positions, j) ==
    CHOOSE i \in positions : Cardinality({m \in positions : m < i}) = j - 1

\* C11: the sampler's output is the images of the first 8 raw records that
\* yield a point, in their order: at most 8 points, nothing from position 9 on,
\* and a dropped record is not replaced.
C11_SubsequenceOfFirstEight ==
    Sampled =>
        /\ Len(hourlyForecast) <= 8
        /\ Len(hourlyForecast) = Cardinality(YieldingPositions)
        /\ \A i \in YieldingPositions : i <= 8
        /\ \A j \in 1..Len(hourlyForecast) :
               hourlyForecast[j] = SamplePoint(RawList[NthOf(YieldingPositions, j)])[1]

\* a list of nine records whose ninth is well formed and some of whose first
\* eight were dropped
C11_Witness ==
    /\ Sampled /\ Len(RawList) = 9 /\ SamplePoint(RawList[9]) # Null
    /\ Len(hourlyForecast) > 0 /\ Len(hourlyForecast) < 8

\* the message the claim gives for a status and a parsed body
C12_ClaimedMessage(status, json) ==
    CASE json = Null -> "HTTP " \o ToString(status)
      [] json[1].message = "invalid key" -> ToString(status) \o " invalid key"
      [] json[1].error = "quota" -> ToString(status) \o " quota"
      [] OTHER -> "HTTP " \o ToString(status)

\* C12: the step that reads the bodies of a non-2xx weather response leaves
\* Error with "<status> <provider message>" when the body supplies a message or
\* error field and "HTTP <status>" otherwise, no snapshot, no forecast, and no
\* geocoding request.
C12_HttpErrorIsReported ==
    [][(lastTask'.kind = "BodiesRead" /\ ~isCancelled
        /\ (~ResponseOk(currentRes[1].status) \/ ~ResponseOk(forecastRes[1].status))) =>
         /\ error' = Some(IF ~ResponseOk(currentRes[1].status)
                          THEN C12_ClaimedMessage(currentRes[1].status, lastTask'.bodies[1])
                          ELSE C12_ClaimedMessage(forecastRes[1].status, lastTask'.bodies[2]))
         /\ ~loading' /\ weather' = Null /\ hourlyForecast' = <<>>
         /\ requests' = requests /\ GeocodeRequests' = {}]_vars

\* the current-conditions endpoint answered 401 with the message "invalid key"
\* in a run that has a geocoding credential
C12_Witness ==
    /\ lastTask.kind = "BodiesRead" /\ lastTask.bodies[1] # Null
    /\ lastTask.bodies[1][1].message = "invalid key"
    /\ IsError /\ error = Some("401 invalid key") /\ weather = Null
    /\ OPENCAGE_API_KEY # "" /\ GeocodeRequests = {}

\* the record and the point at position j of the sampler's output
RecordOf(j) == RawList[NthOf(YieldingPositions, j)]

\* C13: every sampled point has an integer percentage in 0..100, which is 0
\* when pop is absent or not finite and otherwise pop * 100 rounded to the
\* nearest integer and clamped; a finite temperature is rounded to one decimal;
\* temp 21.36 with pop 0.42 gives 21.4 and 42.
C13_PercentageAndTemperature ==
    Sampled =>
        \A j \in 1..Len(hourlyForecast) :
            LET record == RecordOf(j)
                point == hourlyForecast[j]
            IN /\ point.pop \in 0..100
               /\ record.pop.k # "fin" => point.pop = 0
               /\ record.pop.k = "fin" =>
                      /\ point.pop > 0 => record.pop.v >= 10 * point.pop - 5
                      /\ point.pop < 100 => record.pop.v < 10 * point.pop + 5
               /\ record.temp.k = "fin" =>
                      /\ point.temp.k = "fin"
                      /\ record.temp.v >= 10 * point.temp.v - 5
                      /\ record.temp.v < 10 * point.temp.v + 5
               /\ (record.temp = Fin(2136) /\ record.pop = Fin(420)) =>
                      (point.temp = Fin(214) /\ point.pop = 42)

\* a list whose first record has pop 1.5 was sampled to 100 percent, followed
\* by the point of a later record
C13_Witness ==
    /\ Sampled /\ Len(hourlyForecast) > 1
    /\ RawList[1].pop = Fin(1500) /\ RawList[1].temp = Fin(-45)
    /\ hourlyForecast[1].pop = 100 /\ hourlyForecast[1].temp = Fin(-4)

\* C14: whenever a position has been accepted, an error has been reported or
\* the effect has been cleaned up, the watch and the timer are both released:
\* the release is part of the task that takes the decision.
C14_ReleasedOnceDecided ==
    (hasFetched \/ error # Null \/ isCancelled) =>
        (watchId = Null /\ fallbackTimer = Null /\ ~timerArmed)

\* a position within the threshold was accepted while the timer was armed
C14_Witness ==
    /\ hasFetched /\ trigger = "threshold" /\ lastTask.kind = "DeliverPosition"
    /\ effect = "active" /\ ~isCancelled
    /\ watchId = Null /\ fallbackTimer = Null /\ ~timerArmed

C16_DeadlineWithoutPosition ==
    [][(lastTask'.kind = "FallbackTimerFires" /\ ~hasFetched /\ ~isCancelled
        /\ bestPosition = Null) =>
         /\ error' = Some("Unable to refine your location.")
         /\ error' # Some(describeGeoError([code |-> 3, message |-> ""]))
         /\ ~loading' /\ weather' = Null /\ hourlyForecast' = <<>>
         /\ fetchCalls' = 0 /\ requests' = {}
         /\ watchId' = Null /\ fallbackTimer' = Null]_vars

\* the timer ended a run in which no position was retained and no request made
C16_Witness ==
    /\ lastTask.kind = "FallbackTimerFires" /\ IsError
    /\ error = Some(UnableToRefineMsg) /\ bestPosition = Null
    /\ fetchCalls = 0 /\ requests = {} /\ ~hasFetched /\ queuedTasks = 0

\* C17 (as stated): a position whose latitude or longitude is not finite is
\* never retained as the best position and never passed to the fetch.
C17_NonFiniteCoordinatesDiscarded ==
    /\ bestPosition # Null =>
           (NumberIsFinite(bestPosition[1].latitude)
            /\ NumberIsFinite(bestPosition[1].longitude))
    /\ fetchPos # Null =>
           (NumberIsFinite(fetchPos[1].latitude) /\ NumberIsFinite(fetchPos[1].longitude))
    /\ \A r \in requests : r.lat # "Infinity" /\ r.lon # "Infinity"

\* the positions among the first FORECAST_POINTS whose record has a finite
\* temperature and yields a point
FiniteYieldingPositions ==
    {i \in YieldingPositions : NumberIsFinite(RawList[i].temp)}

\* C18 (as stated): a record among the first 8 whose temperature is not a
\* finite number yields no point, and the points of the other records are what
\* they are without it.
C18_NonFiniteTemperatureDropped ==
    Sampled =>
        /\ Len(hourlyForecast) = Cardinality(FiniteYieldingPositions)
        /\ \A j \in 1..Len(hourlyForecast) :
               /\ NumberIsFinite(hourlyForecast[j].temp)
               /\ hourlyForecast[j] =
                      SamplePoint(RawList[NthOf(FiniteYieldingPositions, j)])[1]

\* C19 (as stated): whenever loading is false exactly one of error and weather
\* is set, and an error comes with no weather and an empty forecast.
C19_ErrorOrWeather ==
    ~loading =>
        /\ (error # Null) # (weather # Null)
        /\ error # Null => (weather = Null /\ hourlyForecast = <<>>)

\* C20: every position passed to fetchWeatherForPosition passes its check of
\* the coordinates, so the invalid-coordinates error is never shown.
C20_RecheckNeverFails ==
    /\ fetchPos # Null => CoordinatesAreNumbers(fetchPos[1])
    /\ error # Some("Received invalid coordinates from geolocation.")

\* the fetch was started from the position retained when the stream reported
\* an error, after a position with malformed coordinates had been discarded
C20_Witness ==
    /\ trigger = "error" /\ fetchCalls = 1 /\ fetchPos = bestPosition
    /\ fpc = "awaitResponses" /\ error = Null /\ requests # {}
    /\ fetchPos[1].accuracy = Fin(150)

====
